---- MODULE Spec2Model ----
(***************************************************************************)
(* UnityTcpClient of the Loop MCP STDIO bridge (loop_mcp_bridge_stdio.py): *)
(* concurrent send_request coroutines sharing one backend connection, the  *)
(* connect() retry loop, disconnect(), and the asyncio lock; and           *)
(* run_server: the stdin_reader and stdout_writer tasks, the two memory    *)
(* object streams, the dispatch loop (server.run) and the shutdown.  One   *)
(* action is the code a coroutine runs between two suspension points.      *)
(***************************************************************************)
EXTENDS Integers, Sequences, FiniteSets, TLC

\* ---------------------------------------------------------------- bounds
NumCalls == 2
MaxRetryCount == 2
MaxDocLen == 2
MaxItems == 1
MaxBacklog == 2

\* max_buffer_size of both memory object streams (lines 355-356)
max_buffer_size == 100

Calls == 1..NumCalls

\* --------------------------------------------------------------- state
VARIABLES
    retry_count,   \* UnityTcpClient.retry_count (--retry-count, type=int)
    callers,       \* the handler tasks that call send_request in this run
    reader,        \* self.reader: "none" | "set"
    writer,        \* self.writer: "none" | "open" | "closed" (close() was called on it)
    lock,          \* holder of self._lock, 0 when free
    waiters,       \* FIFO queue of coroutines suspended in self._lock.acquire()
    rx,            \* frames the backend has sent on the current socket, not yet read
    lastw,         \* the call whose request frame was written last on the current socket
    nopen,         \* backend sockets opened by open_connection and not closed yet
    wrote,         \* the calls that have written their frame on the current socket
    pc,            \* position of each send_request coroutine
    req,           \* the request of each call: "ok" | "unserializable"
    attempt,       \* loop index of send_request's for loop
    last_error,    \* send_request's local last_error
    thrown,        \* the exception caught in the write/read step of each call
    result,        \* the value send_request returned
    cattempt,      \* connect(): its loop index
    cdials,        \* connect(): open_connection calls made by this invocation
    csleeps,       \* connect(): retry delays (line 82) slept by this invocation
    cres,          \* connect(): its return value, "none" | "true" | "false"
    first,         \* the call that was started first, 0 before any call
    dials,         \* open_connection calls made on behalf of each send_request
    dfails,        \* those of them that raised
    sends,         \* write/read steps (line 112) entered by each call
    writes,        \* request frames each call put on the wire
    sleeps,        \* retry delays (line 143) each call started
    rd,            \* stdin_reader: "read" (the thread is in readline) | "push"
                   \* (suspended in send) | "eof" | "invalid" | "ioerror" | "cancelled"
    nreq,          \* requests read from standard input so far
    inq,           \* buffer of the client_to_server stream (request ids)
    disp,          \* server.run: "running" | "returned" | "raised"
    outq,          \* buffer of the server_to_client stream (response ids)
    enq,           \* every message the dispatch loop has sent on server_to_client
    wr,            \* stdout_writer: "pop" | "write" | "failed" | "cancelled"
    wmsg,          \* the message stdout_writer is writing (or failed to write), else 0
    out,           \* what has been written to and flushed on standard output
    orch,          \* run_server: "Running" | "Stopping" | "Stopped"
    ndisc,         \* disconnect() calls made by run_server's finally clause
    fdoc,          \* one exchange, byte by byte: the document of the request
    wire,          \* the bytes self.writer.write was given (line 115)
    incoming,      \* the bytes the backend sends in answer
    feof,          \* whether the backend closes the socket after them
    arrived,       \* how many of them have reached the StreamReader's buffer
    consumed,      \* how many of them readexactly has returned
    flen,          \* response_length (line 121), -1 before it is unpacked
    fres,          \* what the exchange returned
    fconn,         \* the connection of the exchange is Connected
    fpc,           \* "start" | "header" | "body" | "done" | "failed" | "cancelled"
    hop,           \* a handler of create_server: the operation invoked
    hpc,           \* "idle" | "sent" | "returned" | "raised"
    hcalls,        \* send_request calls the invocation has made
    hreq,          \* the request it passed to send_request
    hresp,         \* the response send_request returned
    hret,          \* the value the handler returned, or what it raised
    nlines         \* the request lines standard input delivers in all

codec == <<fdoc, wire, incoming, feof, arrived, consumed, flen, fres, fconn, fpc>>
handler == <<hop, hpc, hcalls, hreq, hresp, hret>>
others == <<codec, handler, nlines>>

pump == <<rd, nreq, inq, outq, enq, wr, wmsg, out>>
orchestrator == <<disp, orch, ndisc>>

\* what no line of UnityTcpClient assigns
config == <<retry_count, callers, pump, orchestrator, others>>
conn == <<reader, writer, rx, lastw, nopen, wrote>>
lk == <<lock, waiters>>
cframe == <<cattempt, cdials, csleeps, cres>>
counts == <<dials, dfails, sends, writes, sleeps>>
vars == <<config, conn, lk, pc, req, attempt, last_error, thrown, result, cframe,
          first, counts>>

\* ------------------------------------------------------------- documents
Request(c) == [id |-> c, method |-> "m", body |-> req[c]]

\* json.dumps(request).encode + struct.pack(">I", len(message)) + message
Payload(doc) == <<doc.id, doc.method>>
EncodeFrame(doc) == [len |-> Len(Payload(doc)), payload |-> Payload(doc)]

\* The backend's reply frame to a request frame: a well-formed document that
\* names the request, or a payload that is not JSON.
ReplyBodies == {"json", "garbage"}
BackendReply(frame, body) ==
    IF body = "json"
    THEN [len |-> 2, payload |-> <<frame.payload[1], "result">>]
    ELSE [len |-> 1, payload |-> <<"#">>]

\* json.loads(response_data.decode("utf-8")) raises ValueError on a payload
\* that is not a JSON document
ValidJson(frame) == frame.len = 2 /\ frame.payload[2] = "result"

\* Mutant: the length prefix is decoded as part of the document
DecodeFrameWithPrefix(frame) == [id |-> frame.len, result |-> "result"]

DecodeFrame(frame) == [id |-> frame.payload[1], result |-> "result"]

NoDoc == [id |-> 0, result |-> "none"]
NoResult == [kind |-> "none", code |-> 0, id |-> 0, doc |-> NoDoc,
             attempts |-> 0, last |-> "None"]
ReplyResult(doc) == [kind |-> "reply", code |-> 0, id |-> doc.id, doc |-> doc,
                     attempts |-> 0, last |-> "None"]
InternalError(c) == [kind |-> "error", code |-> -32603, id |-> Request(c).id,
                     doc |-> NoDoc, attempts |-> 0, last |-> "None"]
\* Mutant: the error response is built without the request's id
CommErrorNoId(c, err) == [kind |-> "error", code |-> -32000, id |-> 0,
                          doc |-> [id |-> 0, result |-> "none"],
                          attempts |-> retry_count, last |-> err]

CommError(c, err) == [kind |-> "error", code |-> -32000, id |-> Request(c).id,
                      doc |-> NoDoc, attempts |-> retry_count, last |-> err]

\* ------------------------------------------------------------------ Init
\* The client as __init__ leaves it (lines 61-68) and no call started
ClientInit ==
    /\ reader = "none"
    /\ writer = "none"
    /\ lock = 0
    /\ waiters = <<>>
    /\ rx = <<>>
    /\ lastw = 0
    /\ nopen = 0
    /\ wrote = {}
    /\ pc = [c \in Calls |-> "idle"]
    /\ req = [c \in Calls |-> "ok"]
    /\ attempt = [c \in Calls |-> 0]
    /\ last_error = [c \in Calls |-> "None"]
    /\ thrown = [c \in Calls |-> "none"]
    /\ result = [c \in Calls |-> NoResult]
    /\ cattempt = [c \in Calls |-> 0]
    /\ cdials = [c \in Calls |-> 0]
    /\ csleeps = [c \in Calls |-> 0]
    /\ cres = [c \in Calls |-> "none"]
    /\ first = 0
    /\ dials = [c \in Calls |-> 0]
    /\ dfails = [c \in Calls |-> 0]
    /\ sends = [c \in Calls |-> 0]
    /\ writes = [c \in Calls |-> 0]
    /\ sleeps = [c \in Calls |-> 0]

\* run_server when the task group has started both tasks and awaits
\* server.run (lines 399-404)
BridgeRunning ==
    /\ rd = "read"
    /\ nreq = 0
    /\ inq = <<>>
    /\ disp = "running"
    /\ outq = <<>>
    /\ enq = <<>>
    /\ wr = "pop"
    /\ wmsg = 0
    /\ out = <<>>
    /\ orch = "Running"
    /\ ndisc = 0

\* no handler is running
HandlerIdle ==
    /\ hop = "none"
    /\ hpc = "idle"
    /\ hcalls = 0
    /\ hreq = [id |-> <<>>, method |-> "none"]
    /\ hresp = [kind |-> "none"]
    /\ hret = [kind |-> "none"]

\* no exchange is followed byte by byte
CodecIdle ==
    /\ fdoc = <<>>
    /\ wire = <<>>
    /\ incoming = <<>>
    /\ feof = FALSE
    /\ arrived = 0
    /\ consumed = 0
    /\ flen = -1
    /\ fres = [kind |-> "none", code |-> 0, doc |-> <<>>]
    /\ fconn = FALSE
    /\ fpc = "start"

\* The client used by handler tasks that call send_request at any time, the
\* bridge around it Running throughout.  Runs with more than two callers are
\* explored for retry counts up to 1 only.
Init ==
    /\ retry_count \in 0..MaxRetryCount
    /\ callers = IF retry_count <= 1 THEN Calls ELSE {1, 2}
    /\ ClientInit
    /\ BridgeRunning
    /\ CodecIdle
    /\ HandlerIdle
    /\ nlines = 0

\* ------------------------------------------------------------------ lock
\* Mutant: acquire() that never waits
LockFreeNoWait == TRUE

\* asyncio.Lock.acquire() takes the lock without suspending only when it is
\* unlocked and nobody is queued
LockFree == lock = 0 /\ waiters = <<>>

\* for attempt in range(retry_count): async with self._lock  (lines 103-104)
BeginIter(c, k) ==
    /\ attempt' = [attempt EXCEPT ![c] = k]
    /\ IF LockFree
       THEN /\ lock' = c
            /\ waiters' = waiters
            /\ pc' = [pc EXCEPT ![c] = "locked"]
       ELSE /\ lock' = lock
            /\ waiters' = Append(waiters, c)
            /\ pc' = [pc EXCEPT ![c] = "wait"]

\* leaving "async with self._lock": release() wakes the first queued coroutine,
\* and nobody else can take the lock before it runs
Release(c, newpc) ==
    IF waiters = <<>>
    THEN /\ lock' = 0
         /\ waiters' = waiters
         /\ pc' = [pc EXCEPT ![c] = newpc]
    ELSE /\ lock' = Head(waiters)
         /\ waiters' = Tail(waiters)
         /\ pc' = [pc EXCEPT ![c] = newpc, ![Head(waiters)] = "locked"]

\* Mutant: range(self.retry_count + 1)
InRangeOneMore(k) == k <= retry_count

\* for attempt in range(self.retry_count)  (lines 72, 103)
InRange(k) == k < retry_count

\* Mutant: the retry delay is slept after the last attempt too
MoreAttemptsAlways(k) == TRUE

\* Mutant: the loop gives up one iteration early
MoreAttemptsOneLess(k) == k < retry_count - 2

\* if attempt < self.retry_count - 1  (line 141)
MoreAttempts(k) == k < retry_count - 1

\* Mutant: connect() sleeps after its last failed dial too
ConnectMoreAttemptsAlways(k) == k < retry_count

\* if attempt < self.retry_count - 1  (line 80)
ConnectMoreAttempts(k) == k < retry_count - 1

\* The end of one iteration of send_request's loop, the lock released
\* (lines 140-152): the retry delay, or the -32000 response after the last one.
EndIter(c, err) ==
    /\ last_error' = [last_error EXCEPT ![c] = err]
    /\ IF MoreAttempts(attempt[c])
       THEN /\ Release(c, "rsleep")
            /\ sleeps' = [sleeps EXCEPT ![c] = @ + 1]
            /\ result' = result
       ELSE /\ Release(c, "done")
            /\ sleeps' = sleeps
            /\ result' = [result EXCEPT ![c] = CommError(c, err)]

\* ------------------------------------------------------------- connect()
\* Mutant: the failure of connect() is not recorded
ConnectFailedNotRecorded(c) ==
    /\ pc' = [pc EXCEPT ![c] = "send"]
    /\ cres' = [cres EXCEPT ![c] = "false"]
    /\ last_error' = last_error

\* connect() returns False (lines 84-85); send_request records it (line 107)
ConnectFailed(c) ==
    /\ pc' = [pc EXCEPT ![c] = "send"]
    /\ cres' = [cres EXCEPT ![c] = "false"]
    /\ last_error' = [last_error EXCEPT ![c] = "Failed to connect"]

\* connect() has returned and send_request has used its result
LeaveConnect(c) ==
    /\ cattempt' = [cattempt EXCEPT ![c] = 0]
    /\ cdials' = [cdials EXCEPT ![c] = 0]
    /\ csleeps' = [csleeps EXCEPT ![c] = 0]
    /\ cres' = [cres EXCEPT ![c] = "none"]

\* ------------------------------------------------------------- actions
\* send_request is called: last_error = None, and the first iteration starts
Start(c) ==
    /\ pc[c] = "idle"
    /\ c \in callers
    /\ \E r \in {"ok", "unserializable"} : req' = [req EXCEPT ![c] = r]
    /\ first' = IF first = 0 THEN c ELSE first
    /\ IF InRange(0)
       THEN /\ BeginIter(c, 0)
            /\ result' = result
       ELSE /\ pc' = [pc EXCEPT ![c] = "done"]
            /\ result' = [result EXCEPT ![c] = CommError(c, last_error[c])]
            /\ UNCHANGED <<lk, attempt>>
    /\ UNCHANGED <<config, conn, last_error, thrown, cframe, counts>>

\* Mutant: connect() is called in every iteration, connected or not
EnterAlwaysDials(c) ==
    /\ pc[c] = "locked"
    /\ pc' = [pc EXCEPT ![c] = "dial"]
    /\ UNCHANGED <<config, conn, lk, req, attempt, last_error, thrown, result,
                   cframe, first, counts>>

\* line 105: connect() when a handle is missing, else straight to line 111
Enter(c) ==
    /\ pc[c] = "locked"
    /\ pc' = [pc EXCEPT ![c] = IF writer = "none" \/ reader = "none"
                               THEN "dial" ELSE "send"]
    /\ UNCHANGED <<config, conn, lk, req, attempt, last_error, thrown, result,
                   cframe, first, counts>>

\* Mutant: only the reader is stored when the dial succeeds
DialOkReaderOnly(c) ==
    /\ pc[c] = "dial"
    /\ reader' = "set"
    /\ writer' = writer
    /\ rx' = <<>>
    /\ lastw' = 0
    /\ nopen' = nopen + 1
    /\ wrote' = {}
    /\ dials' = [dials EXCEPT ![c] = @ + 1]
    /\ cdials' = [cdials EXCEPT ![c] = @ + 1]
    /\ cres' = [cres EXCEPT ![c] = "true"]
    /\ pc' = [pc EXCEPT ![c] = "send"]
    /\ UNCHANGED <<config, lk, req, attempt, last_error, thrown, result, cattempt, csleeps,
                   first, dfails, sends, writes, sleeps>>

\* asyncio.open_connection succeeded (lines 75-77): both handles are stored
\* and connect() returns True
DialOk(c) ==
    /\ pc[c] = "dial"
    /\ reader' = "set"
    /\ writer' = "open"
    /\ rx' = <<>>
    /\ lastw' = 0
    /\ nopen' = nopen + 1
    /\ wrote' = {}
    /\ dials' = [dials EXCEPT ![c] = @ + 1]
    /\ cdials' = [cdials EXCEPT ![c] = @ + 1]
    /\ cres' = [cres EXCEPT ![c] = "true"]
    /\ pc' = [pc EXCEPT ![c] = "send"]
    /\ UNCHANGED <<config, lk, req, attempt, last_error, thrown, result, cattempt, csleeps,
                   first, dfails, sends, writes, sleeps>>

\* asyncio.open_connection raised ConnectionRefusedError/OSError (lines 78-82)
DialFail(c) ==
    /\ pc[c] = "dial"
    /\ dials' = [dials EXCEPT ![c] = @ + 1]
    /\ dfails' = [dfails EXCEPT ![c] = @ + 1]
    /\ cdials' = [cdials EXCEPT ![c] = @ + 1]
    /\ IF ConnectMoreAttempts(cattempt[c])
       THEN /\ pc' = [pc EXCEPT ![c] = "csleep"]
            /\ csleeps' = [csleeps EXCEPT ![c] = @ + 1]
            /\ UNCHANGED <<cres, last_error, cattempt>>
       ELSE IF InRange(cattempt[c] + 1)
            THEN /\ cattempt' = [cattempt EXCEPT ![c] = @ + 1]
                 /\ UNCHANGED <<pc, cres, last_error, csleeps>>
            ELSE /\ ConnectFailed(c)
                 /\ UNCHANGED <<cattempt, csleeps>>
    /\ UNCHANGED <<config, conn, lk, req, attempt, thrown, result, first, sends,
                   writes, sleeps>>

\* asyncio.sleep(self.retry_time) of connect() is over (line 82): next iteration
CSleepDone(c) ==
    /\ pc[c] = "csleep"
    /\ IF InRange(cattempt[c] + 1)
       THEN /\ cattempt' = [cattempt EXCEPT ![c] = @ + 1]
            /\ pc' = [pc EXCEPT ![c] = "dial"]
            /\ UNCHANGED <<cres, last_error>>
       ELSE /\ ConnectFailed(c)
            /\ UNCHANGED cattempt
    /\ UNCHANGED <<config, conn, lk, req, attempt, thrown, result, cdials, csleeps,
                   first, counts>>

\* line 111 is false: no handles, the iteration ends without a write
SendSkip(c) ==
    /\ pc[c] = "send"
    /\ ~(writer # "none" /\ reader # "none")
    /\ LeaveConnect(c)
    /\ EndIter(c, last_error[c])
    /\ UNCHANGED <<config, conn, req, attempt, thrown, first, dials, dfails, sends,
                   writes>>

\* Mutant: the serialisation error is handled like a transport error
SendSerialFailRetried(c) ==
    /\ pc[c] = "send"
    /\ writer # "none" /\ reader # "none"
    /\ req[c] = "unserializable"
    /\ LeaveConnect(c)
    /\ sends' = [sends EXCEPT ![c] = @ + 1]
    /\ thrown' = [thrown EXCEPT ![c] = "TypeError"]
    /\ EndIter(c, "TypeError")
    /\ UNCHANGED <<config, conn, req, attempt, first, dials, dfails, writes>>

\* json.dumps(request) raises (line 113): except Exception, lines 132-138
SendSerialFail(c) ==
    /\ pc[c] = "send"
    /\ writer # "none" /\ reader # "none"
    /\ req[c] = "unserializable"
    /\ LeaveConnect(c)
    /\ sends' = [sends EXCEPT ![c] = @ + 1]
    /\ thrown' = [thrown EXCEPT ![c] = "TypeError"]
    /\ result' = [result EXCEPT ![c] = InternalError(c)]
    /\ Release(c, "done")
    /\ UNCHANGED <<config, conn, req, attempt, last_error, first, dials, dfails,
                   writes, sleeps>>

\* lines 113-116: the frame is written and drained; the backend answers it
SendOk(c) ==
    /\ pc[c] = "send"
    /\ writer = "open" /\ reader # "none"
    /\ req[c] = "ok"
    /\ LeaveConnect(c)
    /\ sends' = [sends EXCEPT ![c] = @ + 1]
    /\ writes' = [writes EXCEPT ![c] = @ + 1]
    /\ lastw' = c
    /\ wrote' = wrote \cup {c}
    /\ \E b \in ReplyBodies :
           rx' = Append(rx, BackendReply(EncodeFrame(Request(c)), b))
    /\ pc' = [pc EXCEPT ![c] = "read"]
    /\ UNCHANGED <<config, reader, writer, nopen, lk, req, attempt, last_error, thrown,
                   result, first, dials, dfails, sleeps>>

\* writer.close() of disconnect() (lines 89-92); wait_closed() is awaited next
BeginDisconnect(c, e) ==
    /\ writer' = "closed"
    /\ rx' = <<>>
    /\ lastw' = 0
    /\ nopen' = IF writer = "open" THEN nopen - 1 ELSE nopen
    /\ wrote' = {}
    /\ thrown' = [thrown EXCEPT ![c] = e]
    /\ pc' = [pc EXCEPT ![c] = "closing"]

\* write/drain raises ConnectionResetError, BrokenPipeError or OSError (line 128);
\* a writer that was closed before always does
SendFail(c) ==
    /\ pc[c] = "send"
    /\ writer # "none" /\ reader # "none"
    /\ req[c] = "ok"
    /\ LeaveConnect(c)
    /\ sends' = [sends EXCEPT ![c] = @ + 1]
    /\ BeginDisconnect(c, "ConnectionResetError")
    /\ UNCHANGED <<config, reader, lk, req, attempt, last_error, result, first,
                   dials, dfails, writes, sleeps>>

\* lines 120-126: a whole frame is read and decoded, the response is returned
ReadOk(c) ==
    /\ pc[c] = "read"
    /\ rx # <<>>
    /\ ValidJson(Head(rx))
    /\ rx' = Tail(rx)
    /\ result' = [result EXCEPT ![c] = ReplyResult(DecodeFrame(Head(rx)))]
    /\ Release(c, "done")
    /\ UNCHANGED <<config, reader, writer, lastw, nopen, wrote, req, attempt, last_error, thrown,
                   cframe, first, counts>>

\* Mutant: the ValueError of json.loads leaves send_request uncaught
ReadGarbageRaises(c) ==
    /\ pc[c] = "read"
    /\ rx # <<>>
    /\ ~ValidJson(Head(rx))
    /\ rx' = Tail(rx)
    /\ thrown' = [thrown EXCEPT ![c] = "ValueError"]
    /\ result' = result
    /\ Release(c, "raised")
    /\ UNCHANGED <<config, reader, writer, lastw, nopen, wrote, req, attempt, last_error, cframe,
                   first, counts>>

\* line 123: json.loads raises ValueError on the frame read: except Exception
ReadGarbage(c) ==
    /\ pc[c] = "read"
    /\ rx # <<>>
    /\ ~ValidJson(Head(rx))
    /\ rx' = Tail(rx)
    /\ thrown' = [thrown EXCEPT ![c] = "ValueError"]
    /\ result' = [result EXCEPT ![c] = InternalError(c)]
    /\ Release(c, "done")
    /\ UNCHANGED <<config, reader, writer, lastw, nopen, wrote, req, attempt, last_error, cframe,
                   first, counts>>

\* Mutant: the transport error of the read ends the iteration without
\* disconnect()
ReadFailKeepsConnection(c) ==
    /\ pc[c] = "read"
    /\ EndIter(c, "IncompleteReadError")
    /\ UNCHANGED <<config, conn, req, attempt, thrown, cframe, first, dials, dfails,
                   sends, writes>>

\* readexactly raises IncompleteReadError/ConnectionResetError/OSError (line 128)
ReadFail(c) ==
    /\ pc[c] = "read"
    /\ BeginDisconnect(c, "IncompleteReadError")
    /\ UNCHANGED <<config, reader, lk, req, attempt, last_error, result, cframe,
                   first, counts>>

\* Mutant: disconnect() closes the writer but keeps both handles
CloseDoneKeepsHandles(c) ==
    /\ pc[c] = "closing"
    /\ writer' = writer
    /\ reader' = reader
    /\ thrown' = [thrown EXCEPT ![c] = "none"]
    /\ EndIter(c, thrown[c])
    /\ UNCHANGED <<config, rx, lastw, nopen, wrote, req, attempt, cframe, first, dials,
                   dfails, sends, writes>>

\* wait_closed() returned or raised an Exception (lines 92-97): the handles are
\* dropped, last_error = str(e) (line 131) and the iteration ends
CloseDone(c) ==
    /\ pc[c] = "closing"
    /\ writer' = "none"
    /\ reader' = "none"
    /\ thrown' = [thrown EXCEPT ![c] = "none"]
    /\ EndIter(c, thrown[c])
    /\ UNCHANGED <<config, rx, lastw, nopen, wrote, req, attempt, cframe, first, dials, dfails,
                   sends, writes>>

\* asyncio.sleep(self.retry_time) of send_request is over (line 143)
RSleepDone(c) ==
    /\ pc[c] = "rsleep"
    /\ IF InRange(attempt[c] + 1)
       THEN /\ BeginIter(c, attempt[c] + 1)
            /\ result' = result
       ELSE /\ pc' = [pc EXCEPT ![c] = "done"]
            /\ result' = [result EXCEPT ![c] = CommError(c, last_error[c])]
            /\ UNCHANGED <<lk, attempt>>
    /\ UNCHANGED <<config, conn, req, last_error, thrown, cframe, first, counts>>

\* send_request has returned a value; it has returned or was cancelled
Returned(c) == pc[c] = "done"
Ended(c) == pc[c] \in {"done", "cancelled"}

\* The coroutine is suspended in an await
Suspended(c) == pc[c] \in {"wait", "dial", "csleep", "read", "closing", "rsleep"}

\* The handler task is cancelled: CancelledError is raised at the await the
\* coroutine is suspended in.  No except clause of send_request, connect or
\* disconnect catches it; "async with" releases the lock on the way out, and
\* the frames of the coroutine (its locals) are gone.
Cancel(c) ==
    /\ Suspended(c)
    /\ IF lock = c
       THEN Release(c, "cancelled")
       ELSE /\ pc' = [pc EXCEPT ![c] = "cancelled"]
            /\ waiters' = SelectSeq(waiters, LAMBDA w : w # c)
            /\ lock' = lock
    /\ req' = [req EXCEPT ![c] = "ok"]
    /\ attempt' = [attempt EXCEPT ![c] = 0]
    /\ last_error' = [last_error EXCEPT ![c] = "None"]
    /\ thrown' = [thrown EXCEPT ![c] = "none"]
    /\ LeaveConnect(c)
    /\ UNCHANGED <<config, conn, result, first, counts>>

Next ==
    \E c \in Calls :
        \/ Start(c)
        \/ Enter(c)
        \/ DialOk(c)
        \/ DialFail(c)
        \/ CSleepDone(c)
        \/ SendSkip(c)
        \/ SendSerialFail(c)
        \/ SendOk(c)
        \/ SendFail(c)
        \/ ReadOk(c)
        \/ ReadGarbage(c)
        \/ ReadFail(c)
        \/ CloseDone(c)
        \/ RSleepDone(c)
        \/ Cancel(c)

Spec == Init /\ [][Next]_vars

\* The steps of call c that need nothing but the event loop, the socket
\* operation or the delay they wait for to complete or fail: every step of
\* send_request after its start, the cancellation of its task excepted
Step(c) ==
    \/ Enter(c)
    \/ DialOk(c)
    \/ DialFail(c)
    \/ CSleepDone(c)
    \/ SendSkip(c)
    \/ SendSerialFail(c)
    \/ SendOk(c)
    \/ SendFail(c)
    \/ ReadOk(c)
    \/ ReadGarbage(c)
    \/ ReadFail(c)
    \/ CloseDone(c)
    \/ RSleepDone(c)

\* ------------------------------------------------------------ run_server
\* The requests the peer sends in one run: one when send_request can retry
\* (retry_count >= 2), two when it makes one attempt, and one per handler
\* task when it makes none
MaxRequests == IF retry_count = 0 THEN NumCalls ELSE IF retry_count = 1 THEN 2 ELSE 1

\* One line of standard input as readline() returns it
Lines == {"request", "blank", "malformed"}

\* line.decode('utf-8').strip() is empty (lines 372-373)
IsBlank(line) == line = "blank"

\* JSONRPCMessage.model_validate_json accepts the text (line 376)
ValidMessage(line) == line = "request"

\* the stdin_reader task has ended; its finally clause closed the stream
InboundClosed == rd \in {"eof", "invalid", "ioerror", "cancelled"}

\* the task group's cancel scope is cancelled (line 406, or the exception
\* of server.run leaving the "async with" of line 399)
Cancelling == orch = "Stopping"

\* (json_str + "\n").encode('utf-8')  (line 395)
EncodeLine(m) == <<m, "\n">>

Responded(c) == \E i \in 1..Len(enq) : enq[i] = c

\* readline() returns a line (lines 367-377).  A blank line is skipped; a
\* line that does not validate raises inside the try that encloses the while
\* loop, so the except clause of line 379 ends the task; a message is sent on
\* the stream, which suspends the task when the buffer is full.  When the
\* scope is cancelled, the next checkpoint (send, or the next run_sync)
\* raises the cancellation instead.
StdinLine(line) ==
    /\ rd = "read"
    /\ orch # "Stopped"
    /\ ValidMessage(line) => nreq < nlines
    /\ IF IsBlank(line)
       THEN /\ rd' = IF Cancelling THEN "cancelled" ELSE "read"
            /\ UNCHANGED <<nreq, inq>>
       ELSE IF ~ValidMessage(line)
       THEN /\ rd' = "invalid"
            /\ UNCHANGED <<nreq, inq>>
       ELSE /\ nreq' = nreq + 1
            /\ IF Cancelling
               THEN rd' = "cancelled" /\ inq' = inq
               ELSE IF Len(inq) < max_buffer_size
               THEN rd' = "read" /\ inq' = Append(inq, nreq + 1)
               ELSE rd' = "push" /\ inq' = inq
    /\ UNCHANGED <<retry_count, others, callers, outq, enq, wr, wmsg, out, orchestrator,
                   conn, lk, pc, req, attempt, last_error, thrown, result,
                   cframe, first, counts>>

\* readline() returns b"": "stdin EOF", break, finally aclose (lines 368-382)
StdinEOF ==
    /\ rd = "read"
    /\ orch # "Stopped"
    /\ rd' = "eof"
    /\ UNCHANGED <<retry_count, others, callers, nreq, inq, outq, enq, wr, wmsg,
                   out, orchestrator, conn, lk, pc, req, attempt, last_error,
                   thrown, result, cframe, first, counts>>

\* readline() raises (OSError): except Exception, finally aclose (379-382)
StdinError ==
    /\ rd = "read"
    /\ orch # "Stopped"
    /\ rd' = "ioerror"
    /\ UNCHANGED <<retry_count, others, callers, nreq, inq, outq, enq, wr, wmsg,
                   out, orchestrator, conn, lk, pc, req, attempt, last_error,
                   thrown, result, cframe, first, counts>>

\* Dispatch with a buffer that wakes the suspended sender without taking
\* its message
DispatchDropsPending ==
    /\ disp = "running"
    /\ inq # <<>>
    /\ callers' = callers \cup {Head(inq)}
    /\ rd' = IF rd = "push" THEN "read" ELSE rd
    /\ inq' = Tail(inq)
    /\ UNCHANGED <<retry_count, others, nreq, outq, enq, wr, wmsg, out,
                   orchestrator, conn, lk, pc, req, attempt, last_error, thrown,
                   result, cframe, first, counts>>

\* server.run receives the next message and starts its handler task, which
\* will call send_request (line 404); a sender suspended on the full buffer
\* puts its message in the freed slot
Dispatch ==
    /\ disp = "running"
    /\ inq # <<>>
    /\ callers' = callers \cup {Head(inq)}
    /\ IF rd = "push"
       THEN rd' = "read" /\ inq' = Append(Tail(inq), nreq)
       ELSE rd' = rd /\ inq' = Tail(inq)
    /\ UNCHANGED <<retry_count, others, nreq, outq, enq, wr, wmsg, out,
                   orchestrator, conn, lk, pc, req, attempt, last_error, thrown,
                   result, cframe, first, counts>>

\* the handler has returned what send_request gave it; server.run sends the
\* response on server_to_client_send (line 404), waiting while it is full
Respond(c) ==
    /\ disp = "running"
    /\ c \in callers
    /\ pc[c] = "done"
    /\ ~Responded(c)
    /\ Len(outq) < max_buffer_size
    /\ outq' = Append(outq, c)
    /\ enq' = Append(enq, c)
    /\ UNCHANGED <<retry_count, others, callers, rd, nreq, inq, wr, wmsg, out,
                   orchestrator, conn, lk, pc, req, attempt, last_error, thrown,
                   result, cframe, first, counts>>

\* Mutant: the newest message of the buffer is taken first
WriteBeginNewest ==
    /\ wr = "pop"
    /\ outq # <<>>
    /\ wmsg' = outq[Len(outq)]
    /\ outq' = SubSeq(outq, 1, Len(outq) - 1)
    /\ wr' = "write"
    /\ UNCHANGED <<retry_count, others, callers, rd, nreq, inq, enq, out,
                   orchestrator, conn, lk, pc, req, attempt, last_error, thrown,
                   result, cframe, first, counts>>

\* async for session_msg in server_to_client_recv: the next message is
\* received and write_data is handed to a worker thread (lines 393-395)
WriteBegin ==
    /\ wr = "pop"
    /\ outq # <<>>
    /\ wmsg' = Head(outq)
    /\ outq' = Tail(outq)
    /\ wr' = "write"
    /\ UNCHANGED <<retry_count, others, callers, rd, nreq, inq, enq, out,
                   orchestrator, conn, lk, pc, req, attempt, last_error, thrown,
                   result, cframe, first, counts>>

\* raw_stdout.write(data); raw_stdout.flush() returned (lines 388-390)
WriteDone ==
    /\ wr = "write"
    /\ out' = Append(out, EncodeLine(wmsg))
    /\ wmsg' = 0
    /\ wr' = "pop"
    /\ UNCHANGED <<retry_count, others, callers, rd, nreq, inq, outq, enq,
                   orchestrator, conn, lk, pc, req, attempt, last_error, thrown,
                   result, cframe, first, counts>>

\* write or flush raised: except Exception logs it and the task ends
\* (lines 396-397); nothing else is done
WriteFail ==
    /\ wr = "write"
    /\ wr' = "failed"
    /\ UNCHANGED <<retry_count, others, callers, rd, nreq, inq, outq, enq, wmsg,
                   out, orchestrator, conn, lk, pc, req, attempt, last_error,
                   thrown, result, cframe, first, counts>>

\* the cancellation reaches stdout_writer at the receive of line 393; a
\* write_data running in its thread is waited for first
WriterCancel ==
    /\ Cancelling
    /\ wr = "pop"
    /\ wr' = "cancelled"
    /\ UNCHANGED <<retry_count, others, callers, rd, nreq, inq, outq, enq, wmsg,
                   out, orchestrator, conn, lk, pc, req, attempt, last_error,
                   thrown, result, cframe, first, counts>>

\* Mutant: server.run is left while handler tasks are still running
HandlersEndedNotAwaited == TRUE

\* every handler task that was started has ended
HandlersEnded == \A c \in callers : Ended(c)

\* Mutant: line 406 is skipped and the scope is never cancelled
BeginStoppingNoCancel == orch' = orch /\ rd' = rd

\* the cancel scope is cancelled: a stdin_reader suspended in send is
\* cancelled there; one inside run_sync stays until readline() returns
BeginStopping ==
    /\ orch' = "Stopping"
    /\ rd' = IF rd = "push" THEN "cancelled" ELSE rd

\* server.run returns (line 404): the inbound stream is closed and drained,
\* every handler has ended and its response is sent; line 406 follows
DispatchReturn ==
    /\ disp = "running"
    /\ InboundClosed
    /\ inq = <<>>
    /\ HandlersEnded
    /\ \A c \in callers : pc[c] = "done" => Responded(c)
    /\ disp' = "returned"
    /\ BeginStopping
    /\ UNCHANGED <<retry_count, others, callers, nreq, inq, outq, enq, wr, wmsg,
                   out, ndisc, conn, lk, pc, req, attempt, last_error, thrown,
                   result, cframe, first, counts>>

\* server.run raises (line 404): its handler tasks have ended or were
\* cancelled; the exception leaves the "async with" of line 399, which
\* cancels the scope
DispatchRaise ==
    /\ disp = "running"
    /\ HandlersEnded
    /\ disp' = "raised"
    /\ BeginStopping
    /\ UNCHANGED <<retry_count, others, callers, nreq, inq, outq, enq, wr, wmsg,
                   out, ndisc, conn, lk, pc, req, attempt, last_error, thrown,
                   result, cframe, first, counts>>

\* Mutant: disconnect() that leaves the reader in place
DisconnectedKeepsReader ==
    /\ writer' = "none" /\ reader' = reader /\ rx' = <<>> /\ lastw' = 0
    /\ nopen' = (IF writer = "open" THEN nopen - 1 ELSE nopen) /\ wrote' = {}

\* disconnect() run to its end (lines 87-97): nothing when there is no
\* writer; else close(), wait_closed() (its Exception swallowed), both
\* handles dropped
Disconnected ==
    IF writer = "none"
    THEN UNCHANGED conn
    ELSE /\ writer' = "none" /\ reader' = "none" /\ rx' = <<>> /\ lastw' = 0
         /\ nopen' = (IF writer = "open" THEN nopen - 1 ELSE nopen) /\ wrote' = {}

\* the task group is left when both tasks have ended (line 399); the finally
\* clause calls disconnect() (lines 411-413) and run_server is over
Shutdown ==
    /\ Cancelling
    /\ InboundClosed
    /\ wr \in {"failed", "cancelled"}
    /\ orch' = "Stopped"
    /\ ndisc' = ndisc + 1
    /\ Disconnected
    /\ UNCHANGED <<retry_count, others, callers, pump, disp, lk, pc, req, attempt,
                   last_error, thrown, result, cframe, first, counts>>

\* run_server from its start: no handler task exists before a request is
\* dispatched
InitBridge ==
    /\ retry_count \in 0..MaxRetryCount
    /\ callers = {}
    /\ ClientInit
    /\ BridgeRunning
    /\ CodecIdle
    /\ HandlerIdle
    /\ nlines = MaxRequests

NextBridge ==
    \/ Next
    \/ \E line \in Lines : StdinLine(line)
    \/ StdinEOF
    \/ StdinError
    \/ Dispatch
    \/ \E c \in Calls : Respond(c)
    \/ WriteBegin
    \/ WriteDone
    \/ WriteFail
    \/ WriterCancel
    \/ DispatchReturn
    \/ DispatchRaise
    \/ Shutdown

SpecBridge == InitBridge /\ [][NextBridge]_vars

\* The steps the program takes without a new event from its environment: no
\* line, EOF or error on standard input, no failing write on standard output,
\* no cancellation of a handler and no exception of server.run.  asyncio.run
\* (line 437) runs every task that is ready, the worker threads return, and
\* every socket operation and delay ends.
Progress ==
    \/ \E c \in Calls :
           \/ Start(c)
           \/ Enter(c)
           \/ DialOk(c)
           \/ DialFail(c)
           \/ CSleepDone(c)
           \/ SendSkip(c)
           \/ SendSerialFail(c)
           \/ SendOk(c)
           \/ SendFail(c)
           \/ ReadOk(c)
           \/ ReadGarbage(c)
           \/ ReadFail(c)
           \/ CloseDone(c)
           \/ RSleepDone(c)
           \/ Respond(c)
    \/ Dispatch
    \/ WriteBegin
    \/ WriteDone
    \/ WriterCancel
    \/ DispatchReturn
    \/ Shutdown

FairBridge == SpecBridge /\ WF_vars(Progress)

\* ============================================ one exchange, byte by byte
\* send_request's I/O phase (lines 113-123) on a Connected client, with the
\* socket stream as bytes.  A document is a JSON string, a sequence of code
\* points; json.dumps and json.loads are modelled on that fragment of JSON.
Chars == {97, 34, 92, 233}          \* a  "  \  e-acute
Docs == UNION {[1..n -> Chars] : n \in 0..MaxDocLen}

\* the ASCII code of one lowercase hexadecimal digit
HexDigit(v) == IF v < 10 THEN 48 + v ELSE 87 + v

\* json.dumps escapes the quote, the backslash and (ensure_ascii) every
\* code point above 127 as \uXXXX
EscapeChar(ch) ==
    IF ch \in {34, 92} THEN <<92, ch>>
    ELSE IF ch > 127 THEN <<92, 117, HexDigit((ch \div 4096) % 16),
                            HexDigit((ch \div 256) % 16),
                            HexDigit((ch \div 16) % 16), HexDigit(ch % 16)>>
    ELSE <<ch>>

RECURSIVE Escape(_)
Escape(d) == IF d = <<>> THEN <<>> ELSE EscapeChar(Head(d)) \o Escape(Tail(d))

\* json.dumps(request).encode("utf-8"), line 113
Dumps(d) == <<34>> \o Escape(d) \o <<34>>

IsHex(x) == x \in (48..57) \cup (97..102) \cup (65..70)
HexVal(x) == IF x <= 57 THEN x - 48 ELSE IF x >= 97 THEN x - 87 ELSE x - 55

NotJson == [ok |-> FALSE, doc |-> <<>>]
Cons(ch, r) == IF r.ok THEN [ok |-> TRUE, doc |-> <<ch>> \o r.doc] ELSE r

\* the inside of a JSON string literal, as json.loads scans it
RECURSIVE Unescape(_)
Unescape(b) ==
    IF b = <<>> THEN [ok |-> TRUE, doc |-> <<>>]
    ELSE IF b[1] = 34 THEN NotJson
    ELSE IF b[1] = 92 THEN
        IF Len(b) >= 2 /\ b[2] \in {34, 92}
        THEN Cons(b[2], Unescape(SubSeq(b, 3, Len(b))))
        ELSE IF Len(b) >= 6 /\ b[2] = 117 /\ \A i \in 3..6 : IsHex(b[i])
        THEN Cons(HexVal(b[3]) * 4096 + HexVal(b[4]) * 256
                    + HexVal(b[5]) * 16 + HexVal(b[6]),
                  Unescape(SubSeq(b, 7, Len(b))))
        ELSE NotJson
    ELSE IF b[1] < 32 \/ b[1] > 127 THEN NotJson
    ELSE Cons(b[1], Unescape(Tail(b)))

\* json.loads(response_data.decode("utf-8")), line 123: not ok is the
\* JSONDecodeError, which the empty text raises like any other non-JSON
Loads(b) ==
    IF Len(b) >= 2 /\ b[1] = 34 /\ b[Len(b)] = 34
    THEN Unescape(SubSeq(b, 2, Len(b) - 1))
    ELSE NotJson

\* struct.pack("<I", n): the low byte first
PackLittleEndian(n) ==
    <<n % 256, (n \div 256) % 256, (n \div 65536) % 256, (n \div 16777216) % 256>>

\* struct.pack(">I", n), line 114
Pack(n) ==
    <<(n \div 16777216) % 256, (n \div 65536) % 256, (n \div 256) % 256, n % 256>>

\* struct.unpack(">I", length_data)[0], line 121
Unpack(b) == b[1] * 16777216 + b[2] * 65536 + b[3] * 256 + b[4]

\* length_prefix + message, line 115 (and the test's set_response)
FrameBytes(message) == Pack(Len(message)) \o message

\* what the backend may send in answer to d: d's frame, a frame of length
\* 0, a frame whose payload is no JSON, d's frame short of its last byte,
\* half a length prefix
Answers(d) ==
    {FrameBytes(Dumps(d)), FrameBytes(<<>>), FrameBytes(<<123>>),
     SubSeq(FrameBytes(Dumps(d)), 1, Len(FrameBytes(Dumps(d))) - 1), <<0, 0>>}

InitFrame ==
    /\ retry_count = MaxRetryCount
    /\ callers = {}
    /\ ClientInit
    /\ BridgeRunning
    /\ fdoc \in Docs
    /\ wire = <<>>
    /\ incoming \in Answers(fdoc)
    /\ feof \in BOOLEAN
    /\ arrived = 0
    /\ consumed = 0
    /\ flen = -1
    /\ fres = [kind |-> "none", code |-> 0, doc |-> <<>>]
    /\ fconn = TRUE
    /\ fpc = "start"
    /\ HandlerIdle
    /\ nlines = 0

\* all but the exchange's own variables
notcodec == <<retry_count, callers, pump, orchestrator, handler, nlines, conn, lk, pc, req, attempt,
              last_error, thrown, result, cframe, first, counts>>

\* the bytes in the StreamReader's buffer
Available == arrived - consumed

\* lines 123-126 and 132-138: the document, or the -32603 error response
\* json.loads' exception is turned into
Decoded(body) ==
    LET r == Loads(body) IN
    IF r.ok THEN [kind |-> "reply", code |-> 0, doc |-> r.doc]
    ELSE [kind |-> "error", code |-> -32603, doc |-> <<>>]

\* lines 113-116: serialise, prefix, write, drain
FWrite ==
    /\ fpc = "start"
    /\ fconn
    /\ wire' = FrameBytes(Dumps(fdoc))
    /\ fpc' = "header"
    /\ UNCHANGED <<fdoc, incoming, feof, arrived, consumed, flen, fres, fconn, notcodec>>

\* one more byte of the answer reaches the StreamReader
FArrive ==
    /\ fpc # "start"
    /\ fconn
    /\ arrived < Len(incoming)
    /\ arrived' = arrived + 1
    /\ UNCHANGED <<fdoc, wire, incoming, feof, consumed, flen, fres, fconn, fpc, notcodec>>

\* lines 120-121, and 122-126 when the payload is in the buffer already:
\* readexactly suspends only when the buffer is short
FReadHeader ==
    /\ fpc = "header"
    /\ Available >= 4
    /\ LET n == Unpack(SubSeq(incoming, consumed + 1, consumed + 4)) IN
        /\ flen' = n
        /\ IF Available - 4 >= n
           THEN /\ consumed' = consumed + 4 + n
                /\ fres' = Decoded(SubSeq(incoming, consumed + 5, consumed + 4 + n))
                /\ fpc' = "done"
           ELSE /\ consumed' = consumed + 4
                /\ fpc' = "body"
                /\ UNCHANGED fres
    /\ UNCHANGED <<fdoc, wire, incoming, feof, arrived, fconn, notcodec>>

\* lines 122-126, resumed once the payload has arrived
FReadBody ==
    /\ fpc = "body"
    /\ Available >= flen
    /\ consumed' = consumed + flen
    /\ fres' = Decoded(SubSeq(incoming, consumed + 1, consumed + flen))
    /\ fpc' = "done"
    /\ UNCHANGED <<fdoc, wire, incoming, feof, arrived, flen, fconn, notcodec>>

\* lines 128-131: the socket ends inside a frame, readexactly raises
\* IncompleteReadError (emptying the buffer) and the client disconnects
FShort ==
    /\ fpc \in {"header", "body"}
    /\ feof
    /\ arrived = Len(incoming)
    /\ Available < (IF fpc = "header" THEN 4 ELSE flen)
    /\ consumed' = arrived
    /\ fconn' = FALSE
    /\ fpc' = "failed"
    /\ UNCHANGED <<fdoc, wire, incoming, feof, arrived, flen, fres, notcodec>>

\* CancelledError delivered at the await of line 120 or 122: no except
\* clause of send_request catches it, the lock is released, the handles stay
FCancel ==
    /\ fpc \in {"header", "body"}
    /\ fpc' = "cancelled"
    /\ UNCHANGED <<fdoc, wire, incoming, feof, arrived, consumed, flen, fres, fconn, notcodec>>

NextFrame == FWrite \/ FArrive \/ FReadHeader \/ FReadBody \/ FShort \/ FCancel

SpecFrame == InitFrame /\ [][NextFrame]_vars

\* ================================================ create_server's handlers
\* The six handlers create_server registers (lines 159-340): each builds one
\* request, awaits unity_client.send_request and maps the response.  The
\* response is whatever send_request may return: one of its own error
\* responses or any document the backend sent.
Operations == {"list_tools", "call_tool", "list_prompts", "get_prompt",
               "list_resources", "read_resource"}
Listings == {"list_tools", "list_prompts", "list_resources"}
Names == {"a", "b"}

\* every operation names the first backend method
MethodToolsListOnly(op) == "tools/list"

\* the "method" member of the request each handler builds
Method(op) ==
    CASE op = "list_tools" -> "tools/list"
      [] op = "call_tool" -> "tools/call"
      [] op = "list_prompts" -> "prompts/list"
      [] op = "get_prompt" -> "prompts/get"
      [] op = "list_resources" -> "resources/list"
      [] op = "read_resource" -> "resources/read"

\* the "id" member: the operation, and its argument where it has one
RequestId(op, name) == IF op \in Listings THEN <<op>> ELSE <<op, name>>

\* an entry of a result's list: whether it has the member the handler
\* subscripts or tests (name, uri, role, text), and its "type" member
Items == [key : BOOLEAN, type : {"text", "image", "other"}]
ItemLists == UNION {[1..n -> Items] : n \in 0..MaxItems}

\* the "error" member: an object with "message" (the backend's, or that of
\* send_request's own error response, lines 145-152), an object without,
\* or no object
ErrorMembers ==
    {[obj |-> TRUE, has |-> TRUE, message |-> "Method not found"],
     [obj |-> TRUE, has |-> TRUE, message |-> "Failed to communicate with Unity"],
     [obj |-> TRUE, has |-> FALSE, message |-> ""],
     [obj |-> FALSE, has |-> FALSE, message |-> ""]}

Responses ==
    [kind : {"error"}, error : ErrorMembers, items : {<<>>}]
    \cup [kind : {"result"}, error : {[obj |-> FALSE, has |-> FALSE, message |-> ""]},
          items : ItemLists]

NoValue == [kind |-> "none"]
Raised(exc) == [kind |-> "raised", exc |-> exc]

\* f"Error: {error.get('message', 'Unknown error')}"
ErrorText(error) == <<"Error: ", IF error.has THEN error.message ELSE "Unknown error">>

\* a comprehension that subscripts every entry: KeyError on one without
\* the member
Listed(items) ==
    IF \E i \in 1..Len(items) : ~items[i].key THEN Raised("KeyError")
    ELSE [kind |-> "list", items |-> items]

\* call_tool's loop (lines 205-224): entries of an unknown type are skipped
RECURSIVE McpContent(_)
McpContent(items) ==
    IF items = <<>> THEN <<>>
    ELSE IF Head(items).type \in {"text", "image", "resource"}
    THEN <<Head(items).type>> \o McpContent(Tail(items))
    ELSE McpContent(Tail(items))

\* what the handler of op returns, or raises, for a response
HandlerValue(op, resp) ==
    IF resp.kind = "error" THEN
        IF op \in Listings THEN [kind |-> "list", items |-> <<>>]
        ELSE IF ~resp.error.obj THEN Raised("AttributeError")
        ELSE IF op = "call_tool" THEN [kind |-> "content", items |-> <<ErrorText(resp.error)>>]
        ELSE IF op = "get_prompt"
        THEN [kind |-> "prompt", description |-> ErrorText(resp.error), messages |-> <<>>]
        ELSE [kind |-> "text", text |-> ErrorText(resp.error)]
    ELSE
        IF op \in Listings THEN Listed(resp.items)
        ELSE IF op = "call_tool"
        THEN [kind |-> "content",
              items |-> IF McpContent(resp.items) # <<>> THEN McpContent(resp.items)
                        ELSE <<"No content returned">>]
        ELSE IF op = "get_prompt"
        THEN IF Listed(resp.items).kind = "raised" THEN Raised("KeyError")
             ELSE [kind |-> "prompt", description |-> "description", messages |-> resp.items]
        ELSE [kind |-> "text",
              text |-> IF resp.items # <<>> /\ resp.items[1].key THEN "text" ELSE ""]

InitHandlers ==
    /\ retry_count = MaxRetryCount
    /\ callers = {}
    /\ ClientInit
    /\ BridgeRunning
    /\ CodecIdle
    /\ HandlerIdle
    /\ nlines = 0

nothandler == <<retry_count, callers, pump, orchestrator, codec, nlines, conn, lk, pc, req,
                attempt, last_error, thrown, result, cframe, first, counts>>

\* the server invokes a handler, which builds its request and awaits
\* send_request
Invoke(op, name) ==
    /\ hpc = "idle"
    /\ hop' = op
    /\ hreq' = [id |-> RequestId(op, name), method |-> Method(op)]
    /\ hcalls' = hcalls + 1
    /\ hpc' = "sent"
    /\ UNCHANGED <<hresp, hret, nothandler>>

\* send_request returns resp and the handler runs to its end
Handled(resp) ==
    /\ hpc = "sent"
    /\ hresp' = resp
    /\ hret' = HandlerValue(hop, resp)
    /\ hpc' = IF HandlerValue(hop, resp).kind = "raised" THEN "raised" ELSE "returned"
    /\ UNCHANGED <<hop, hreq, hcalls, nothandler>>

NextHandlers ==
    \/ \E op \in Operations, name \in Names : Invoke(op, name)
    \/ \E resp \in Responses : Handled(resp)

SpecHandlers == InitHandlers /\ [][NextHandlers]_vars

\* ============================================== the inbound queue, full
\* stdin_reader and the dispatch loop alone, on an input long enough to
\* fill client_to_server (max_buffer_size messages, line 355)
InitInbound ==
    /\ retry_count = MaxRetryCount
    /\ callers = {}
    /\ ClientInit
    /\ BridgeRunning
    /\ CodecIdle
    /\ HandlerIdle
    /\ nlines = max_buffer_size + MaxBacklog

NextInbound ==
    \/ \E line \in Lines : StdinLine(line)
    \/ Dispatch

SpecInbound == InitInbound /\ [][NextInbound]_vars

\* ================================================================ claims
TransportErrors == {"ConnectionResetError", "IncompleteReadError"}
NonTransportErrors == {"TypeError", "ValueError"}

\* The coroutine is inside the socket-I/O phase of send_request: connect()
\* (dial and its delay), the write, the read, the close after an error
InIO(c) == pc[c] \in {"dial", "csleep", "send", "read", "closing"}

\* C1: at every instant at most one send_request is inside its socket-I/O
\* phase, and while a call waits for its reply no other request frame has
\* been written on the connection after its own.
C1_SingleFlight ==
    /\ \A a, b \in Calls : InIO(a) /\ InIO(b) => a = b
    /\ \A c \in Calls : pc[c] = "read" => lastw = c /\ rx # <<>>

\* C1 witness: one call waits for its reply while another one, started
\* meanwhile, is queued on the lock
C1_Witness == \E a, b \in Calls : pc[a] = "read" /\ pc[b] = "wait"

\* C2: the lock is held for the whole call, retries and retry delay included:
\* while the call that started first has not returned, no other call dials or
\* enters the write step.
C2_LockHeldWholeCall ==
    (first # 0 /\ ~Ended(first)) =>
        \A b \in Calls \ {first} : dials[b] = 0 /\ sends[b] = 0

\* C3: a backend reply returned by send_request is the reply to that call's
\* own request (the backend answers every request frame once, in order).
C3_PositionalCorrelation ==
    \A c \in Calls :
        result[c].kind = "reply" => result[c].doc.id = Request(c).id

C5_RetryExhausted ==
    \A c \in Calls :
        (Returned(c) /\ result[c].code = -32000 /\ retry_count >= 1 /\ dfails[c] = 0)
            => /\ sends[c] = retry_count
               /\ result[c].kind = "error"
               /\ result[c].id = Request(c).id
               /\ result[c].attempts = retry_count
               /\ result[c].last \in TransportErrors
               /\ result[c].last = last_error[c]
               /\ result[c].doc = NoDoc

\* C5 witness: every dial succeeded, two exchanges failed, -32000 returned
C5_Witness ==
    \E c \in Calls :
        /\ Returned(c) /\ result[c].code = -32000 /\ dfails[c] = 0
        /\ retry_count = 2 /\ sends[c] = 2 /\ dials[c] >= 1

\* C6: connect() returns False only after exactly retry_count dials, with the
\* connection Disconnected; it returns True at the first dial that succeeds,
\* with both handles stored, and a connect() in progress has made fewer than
\* retry_count dials.
C6_ConnectBound ==
    \A c \in Calls :
        /\ cres[c] = "false" =>
              cdials[c] = retry_count /\ reader = "none" /\ writer = "none"
        /\ cres[c] = "true" =>
              /\ cdials[c] = cattempt[c] + 1
              /\ cdials[c] <= retry_count
              /\ reader = "set" /\ writer = "open"
        /\ pc[c] \in {"dial", "csleep"} =>
              /\ cdials[c] < retry_count
              /\ reader = "none" /\ writer = "none"

\* C6 witness: a connect() has returned False after two refused dials
C6_Witness ==
    \E c \in Calls : cres[c] = "false" /\ retry_count = 2 /\ cdials[c] = 2

\* C7: after a transport error in the write or the read the connection is
\* Disconnected before the next attempt starts: an attempt never starts on
\* the handles of a socket that was closed after an error.
C7_DisconnectedBeforeNextAttempt ==
    \A c \in Calls :
        pc[c] = "locked" =>
            \/ reader = "none" /\ writer = "none"
            \/ reader = "set" /\ writer = "open"

\* C8: a call that finds the client Connected and whose first exchange is
\* answered with a well-formed frame has written one frame and dialled
\* nothing, returns the document of exactly that frame, and leaves the
\* connection Connected.
C8_SuccessfulExchange ==
    [][\A c \in Calls :
          (pc[c] = "read" /\ pc'[c] = "done" /\ result'[c].kind = "reply"
              /\ dials[c] = 0 /\ sends[c] = 1)
          => /\ writes'[c] = 1
             /\ dials'[c] = 0
             /\ attempt'[c] = 0
             /\ <<result'[c].doc.id, result'[c].doc.result>> = Head(rx).payload
             /\ reader' = "set" /\ writer' = "open"]_vars

\* C8 witness: a call has returned a reply over a connection it did not dial
C8_Witness ==
    \E c \in Calls :
        /\ Returned(c) /\ result[c].kind = "reply"
        /\ dials[c] = 0 /\ sends[c] = 1 /\ writes[c] = 1
        /\ reader = "set" /\ writer = "open"

\* C9: a non-transport exception in the write/read step ends the call at
\* once with a -32603 response carrying the request's id; no retry delay, no
\* further iteration follows it, on whatever attempt it happened.
C9_NonTransportNotRetried ==
    \A c \in Calls :
        thrown[c] \in NonTransportErrors =>
            /\ Returned(c)
            /\ result[c].kind = "error"
            /\ result[c].code = -32603
            /\ result[c].id = Request(c).id
            /\ sleeps[c] = attempt[c]
            /\ lock # c

\* C9 witness: the request could not be serialised on the second attempt
C9_Witness ==
    \E c \in Calls :
        /\ thrown[c] = "TypeError" /\ attempt[c] = 1
        /\ Returned(c) /\ result[c].code = -32603

\* C10: a response payload that is not valid JSON is handled exactly like a
\* short read: disconnect() is called (the writer is closed, the close is
\* awaited) and the attempt ends Disconnected.
C10_ParseErrorInvalidates ==
    \A c \in Calls :
        thrown[c] \in {"ValueError", "IncompleteReadError"} =>
            pc[c] = "closing" /\ writer = "closed"

\* C11: send_request raises nothing to its caller, whatever fails (the dial,
\* the write, the read, a short frame, an unparseable payload): a call that is
\* not cancelled ends by returning one response value, which is the backend's
\* reply, a -32603 error or a -32000 error for its request.
C11_ErrorsAsValues ==
    \A c \in Calls :
        /\ pc[c] # "raised"
        /\ Returned(c) =>
              \/ result[c].kind = "reply" /\ result[c].doc # NoDoc
              \/ /\ result[c].kind = "error"
                 /\ result[c].code \in {-32603, -32000}
                 /\ result[c].id = Request(c).id
        /\ thrown[c] # "none" => pc[c] \in {"closing", "done"}

\* C11 witness: a call whose dials were refused, that slept a retry delay,
\* then connected and read an unparseable payload, has returned
C11_Witness ==
    \E c \in Calls :
        /\ Returned(c) /\ dfails[c] >= 1 /\ sleeps[c] >= 1
        /\ thrown[c] = "ValueError" /\ result[c].code = -32603

\* C16: a send_request call is never abandoned between writing its request
\* and reading the reply: no call ends by cancellation while its frame is the
\* last one written on the connection.
C16_NoMidFlightCancellation ==
    \A c \in Calls : ~(pc[c] = "cancelled" /\ lastw = c)

\* C20: requests reach the backend in program order: when the call that
\* started first obtains its reply, no other call has written a frame before
\* the frame that obtained it.
C20_ProgramOrder ==
    [][\A a \in Calls :
          (a = first /\ pc[a] = "read" /\ pc'[a] = "done"
              /\ result'[a].kind = "reply")
          => \A b \in Calls \ {a} : writes[b] = 0]_vars

\* C12: a line of standard input that is not a valid JSON-RPC document is
\* dropped and the inbound loop keeps running with the inbound queue open:
\* while the bridge is Running, stdin_reader has not ended on a malformed line.
C12_MalformedLineDropped == orch = "Running" => rd # "invalid"

\* C13: once standard input has reached EOF (the inbound loop has ended
\* without error and closed the inbound queue) the bridge eventually reaches
\* Stopped; run_server calls disconnect() exactly once, on reaching Stopped.
C13_EOFShutdown ==
    /\ [](ndisc <= 1 /\ (orch = "Stopped" <=> ndisc = 1))
    /\ [](rd = "eof" => InboundClosed)
    /\ (rd = "eof") ~> (orch = "Stopped" /\ ndisc = 1)

\* C13 witness: EOF came before any request; the bridge is Stopped after one
\* disconnect() on a client that never dialled
C13_Witness ==
    /\ orch = "Stopped" /\ rd = "eof" /\ ndisc = 1 /\ nreq = 0
    /\ disp = "returned"
    /\ \A c \in Calls : dials[c] = 0 /\ pc[c] = "idle"

\* C14: when the dispatch loop has returned or raised, the bridge goes on to
\* Stopped by itself: until it is Stopped some step of the program is
\* possible that needs no further line or EOF on standard input.
C14_StoppedWithoutStdin ==
    (disp \in {"returned", "raised"} /\ orch # "Stopped") => ENABLED Progress

\* C15: after a failure of the inbound or of the outbound loop the bridge
\* does not stay Running: until it is Stopped some step of the program
\* towards shutdown is possible without any further input.
C15_LoopFailureStops ==
    ((wr = "failed" \/ rd \in {"invalid", "ioerror"}) /\ orch # "Stopped")
        => ENABLED Progress

\* C17: once run_server's disconnect() has run (the bridge is Stopped) the
\* connection is Disconnected and no step of any send_request is possible:
\* none is started or resumed, so no dial and no write happens again.
C17_NothingAfterShutdown ==
    orch = "Stopped" =>
        /\ reader = "none" /\ writer = "none"
        /\ \A c \in Calls : pc[c] \in {"idle", "done", "cancelled"}
        /\ ~ENABLED Next

\* C17 witness: the bridge is Stopped after a call that got its reply, so the
\* shutdown disconnect() found the client Connected
C17_Witness ==
    /\ orch = "Stopped"
    /\ \E c \in Calls : Returned(c) /\ result[c].kind = "reply" /\ writes[c] = 1

\* C18: every disconnect() that returns leaves the client Disconnected (both
\* handles none), whether it was called after a transport error or by the
\* shutdown; called when there is no writer it changes nothing.
C18_DisconnectIdempotent ==
    [][/\ \A c \in Calls :
             (pc[c] = "closing" /\ pc'[c] \in {"rsleep", "done", "wait", "locked"})
                 => reader' = "none" /\ writer' = "none"
       /\ ndisc' = ndisc + 1 =>
             /\ reader' = "none" /\ writer' = "none"
             /\ writer = "none" => UNCHANGED conn]_vars

\* C18 witness: a call disconnected after a transport error, reconnected and
\* got its reply; the shutdown disconnect() then ran on the open connection
C18_Witness ==
    /\ orch = "Stopped" /\ ndisc = 1
    /\ \E c \in Calls :
           Returned(c) /\ result[c].kind = "reply" /\ sleeps[c] >= 1 /\ dials[c] >= 2

\* C19: standard output holds the messages in the order the dispatch loop
\* enqueued them, each as its document and a newline, none twice and none
\* out of order; at most one message is being written, and the next one is
\* popped only when that write has been flushed.
C19_OutboundOrder ==
    /\ Len(out) <= Len(enq)
    /\ \A i \in 1..Len(out) : out[i] = <<enq[i], "\n">>
    /\ enq = [i \in 1..Len(out) |-> out[i][1]]
                \o (IF wmsg # 0 THEN <<wmsg>> ELSE <<>>) \o outq
    /\ \A i, j \in 1..Len(enq) : enq[i] = enq[j] => i = j
    /\ wr = "write" => wmsg # 0
    /\ wr = "pop" => wmsg = 0

\* C19 witness: the response of the second request was enqueued first, and
\* both are on standard output in that order
C19_Witness == Len(out) = 2 /\ out[1] = <<2, "\n">> /\ enq = <<2, 1>>

\* C26: a connect() whose k-th dial is the first to succeed has slept k-1
\* retry delays, one after each failed dial; a connect() whose retry_count
\* dials all failed has slept retry_count - 1 delays, none after the last dial.
C26_ConnectDelays ==
    \A c \in Calls :
        /\ cres[c] = "true" => csleeps[c] = cdials[c] - 1
        /\ cres[c] = "false" =>
              cdials[c] = retry_count /\ csleeps[c] = retry_count - 1
        /\ pc[c] = "csleep" => csleeps[c] = cdials[c] /\ cdials[c] < retry_count
        /\ pc[c] = "dial" => csleeps[c] = cdials[c]

\* C26 witness: the second dial of a connect() succeeded after one delay
C26_Witness ==
    \E c \in Calls : cres[c] = "true" /\ cdials[c] = 2 /\ csleeps[c] = 1

C28_FailedConnectGoesOn ==
    [][\A c \in Calls :
          cres[c] = "false" =>
              /\ pc[c] = "send"
              /\ last_error[c] = "Failed to connect"
              /\ pc'[c] # pc[c] =>
                    /\ writes'[c] = writes[c]
                    /\ sends'[c] = sends[c]
                    /\ IF attempt[c] + 1 < retry_count
                       THEN pc'[c] = "rsleep" /\ attempt'[c] = attempt[c]
                       ELSE /\ pc'[c] = "done"
                            /\ result'[c].code = -32000
                            /\ result'[c].last = "Failed to connect"]_vars

\* C28 witness: the connect() of the first iteration failed on every dial,
\* and the call got its reply in the second iteration
C28_Witness ==
    \E c \in Calls :
        /\ Returned(c) /\ result[c].kind = "reply"
        /\ retry_count = 2 /\ dfails[c] = 2 /\ sleeps[c] = 1 /\ writes[c] = 1

\* C29: the reader and writer handles are both absent or both present in
\* every state; both are absent while no dial has succeeded, and during a
\* connect() with its failed dials and delays.
C29_BothOrNeither ==
    /\ reader = "none" <=> writer = "none"
    /\ (\A c \in Calls : dials[c] = dfails[c]) => reader = "none" /\ writer = "none"
    /\ \A c \in Calls :
           pc[c] \in {"dial", "csleep"} => reader = "none" /\ writer = "none"

\* C29 witness: a dial succeeded after a failed one, both handles are present
C29_Witness ==
    /\ reader = "set" /\ writer = "open"
    /\ \E c \in Calls : dfails[c] >= 1 /\ dials[c] > dfails[c]

\* C24: the frame send_request writes is the 4-byte big-endian count of the
\* payload's bytes followed by exactly the payload; decoding a frame built
\* that way gives the document back (loads(dumps(d)) = d, and an answer
\* that is d's frame is returned as d); 12 packs to 00 00 00 0C and those
\* bytes unpack to 12.
C24_FramingRoundTrip ==
    /\ Pack(12) = <<0, 0, 0, 12>>
    /\ Unpack(<<0, 0, 0, 12>>) = 12
    /\ fpc # "start" =>
        /\ Len(wire) = 4 + Len(Dumps(fdoc))
        /\ SubSeq(wire, 1, 4) = Pack(Len(Dumps(fdoc)))
        /\ Unpack(SubSeq(wire, 1, 4)) = Len(wire) - 4
        /\ SubSeq(wire, 5, Len(wire)) = Dumps(fdoc)
        /\ Loads(SubSeq(wire, 5, 4 + Unpack(SubSeq(wire, 1, 4)))) = [ok |-> TRUE, doc |-> fdoc]
    /\ (fpc = "done" /\ incoming = FrameBytes(Dumps(fdoc))) =>
        fres = [kind |-> "reply", code |-> 0, doc |-> fdoc]

\* an answer carrying the request's own document, escapes included, has
\* been read and returned
C24_Witness ==
    /\ fpc = "done"
    /\ incoming = FrameBytes(Dumps(fdoc))
    /\ fdoc = <<34, 233>>
    /\ fres.doc = fdoc
    /\ Len(wire) = 14

\* the end of the answer's first frame, once its prefix is complete
FrameEnd == 4 + Unpack(SubSeq(incoming, 1, 4))

\* C25: whenever the connection is Connected and no send_request is inside
\* its I/O phase, the unread part of the socket stream starts at a frame
\* boundary: nothing or one whole frame has been consumed.
C25_FrameAligned ==
    (fconn /\ fpc \in {"start", "done", "cancelled"}) =>
        \/ consumed = 0
        \/ Len(incoming) >= 4 /\ consumed = FrameEnd

\* C30: a response frame whose length prefix is 0 is not rejected: reading
\* it produces no error response and does not disconnect the client.
C30_ZeroLengthAccepted ==
    (fpc = "done" /\ flen = 0) => fres.kind # "error" /\ fconn

\* C22: each handler issues exactly one send_request call per invocation,
\* naming the matching backend method (tools/list, tools/call, prompts/list,
\* prompts/get, resources/list, resources/read), whether the call ends in a
\* result or in an error.
C22_OneRequestPerInvocation ==
    /\ hpc = "idle" => hcalls = 0
    /\ hpc # "idle" =>
        /\ hcalls = 1
        /\ \/ hop = "list_tools" /\ hreq.method = "tools/list"
           \/ hop = "call_tool" /\ hreq.method = "tools/call"
           \/ hop = "list_prompts" /\ hreq.method = "prompts/list"
           \/ hop = "get_prompt" /\ hreq.method = "prompts/get"
           \/ hop = "list_resources" /\ hreq.method = "resources/list"
           \/ hop = "read_resource" /\ hreq.method = "resources/read"

\* a handler other than the first has ended on an error response, having
\* sent its one request
C22_Witness ==
    /\ hpc = "returned"
    /\ hop = "get_prompt"
    /\ hresp.kind = "error"
    /\ hcalls = 1
    /\ hreq.method = "prompts/get"

\* C23: when the response of send_request carries an error the handler
\* raises nothing and returns its safe value: an empty list for the three
\* listings, one text item "Error: " + the backend's message for a tool
\* call, an empty string for a resource read.
C23_SafeValueOnError ==
    (hpc \in {"returned", "raised"} /\ hresp.kind = "error") =>
        /\ hpc = "returned"
        /\ hop \in Listings => hret = [kind |-> "list", items |-> <<>>]
        /\ hop = "call_tool" =>
              hret = [kind |-> "content", items |-> <<(<<"Error: ", hresp.error.message>>)>>]
        /\ hop = "read_resource" => hret = [kind |-> "text", text |-> ""]

\* the messages server.run has received so far
Dispatched == Cardinality(callers)

\* C21: the inbound queue never holds more than max_buffer_size messages;
\* when it is full stdin_reader is suspended in the push and reads no
\* further line until the dispatch loop frees a slot; no parsed message is
\* dropped or overwritten because the queue was full (every message read is
\* dispatched, queued, or the one being pushed), and messages reach the
\* dispatch loop in the order their lines were read.
C21_InboundBackpressure ==
    [][/\ Len(inq') <= max_buffer_size
       /\ callers' = 1..Dispatched'
       /\ \A i \in 1..Len(inq') : inq'[i] = Dispatched' + i
       /\ nreq' = Dispatched' + Len(inq') + (IF rd' = "push" THEN 1 ELSE 0)
       /\ rd' = "push" => Len(inq') = max_buffer_size
       /\ rd = "push" =>
            /\ nreq' = nreq
            /\ Dispatched' = Dispatched + 1
            /\ rd' = "read"
            /\ inq' = Append(Tail(inq), nreq)
       /\ Dispatched' # Dispatched => callers' = callers \cup {Dispatched + 1}]_vars

\* the queue was full twice with a line waiting; both waiting messages
\* have entered it behind the others
C21_Witness ==
    /\ Dispatched = 2
    /\ Len(inq) = max_buffer_size
    /\ inq[max_buffer_size] = max_buffer_size + 2
    /\ rd = "read"

\* C36: retry_count is a positive integer for the whole process lifetime,
\* so every send_request that returns the -32000 error has made at least
\* one attempt to reach the backend (a dial or a write) before.
C36_RetryCountPositive ==
    /\ retry_count >= 1
    /\ \A c \in Calls :
          (Returned(c) /\ result[c].code = -32000) => dials[c] + sends[c] >= 1

\* C35: no response is lost at shutdown: when server.run has returned and
\* stdout_writer has ended without a failed write, the outbound buffer is
\* empty and every message the dispatch loop sent on server_to_client has
\* been written to standard output.
C35_NoResponseLost ==
    (disp = "returned" /\ wr = "cancelled") =>
        /\ outq = <<>>
        /\ wmsg = 0
        /\ Len(out) = Len(enq)

\* C32: the client holds at most one open backend socket, the one its
\* writer refers to; connect() runs only while the connection is
\* Disconnected, so a successful dial never replaces the handles of a
\* socket that is still open.
C32_NoSocketLeak ==
    /\ nopen <= 1
    /\ nopen = 1 <=> writer = "open"
    /\ \A c \in Calls :
          pc[c] \in {"dial", "csleep"} => reader = "none" /\ writer = "none" /\ nopen = 0

\* one call has opened a second socket after its first one was closed
C32_Witness ==
    /\ nopen = 1
    /\ writer = "open"
    /\ \E c \in Calls : dials[c] - dfails[c] = 2

\* C33: when send_request returns the -32000 error the connection is
\* Disconnected; when it returns a reply read from the backend the
\* connection is Connected on the socket that carried the reply; when it
\* returns -32603 the connection is as it was when the exception occurred.
C33_PostState ==
    [][\A c \in Calls :
        (pc[c] # "done" /\ pc'[c] = "done") =>
            /\ result'[c].code = -32000 =>
                  reader' = "none" /\ writer' = "none" /\ nopen' = 0
            /\ result'[c].kind = "reply" =>
                  /\ pc[c] = "read"
                  /\ reader = "set" /\ writer = "open"
                  /\ reader' = reader /\ writer' = writer /\ nopen' = nopen
            /\ result'[c].code = -32603 =>
                  reader' = reader /\ writer' = writer /\ nopen' = nopen]_vars

\* a call has returned -32000 after a write that a transport error
\* followed, and the connection is Disconnected
C33_Witness ==
    \E c \in Calls :
        /\ Returned(c)
        /\ result[c].code = -32000
        /\ writes[c] >= 1
        /\ reader = "none" /\ writer = "none"

\* C34: one send_request call writes its request frame at most retry_count
\* times and at most once on any one connection; it has written it exactly
\* once when its first attempt returns the reply.  (The witness is the
\* second write, on a fresh connection, after a write that a failed read
\* followed.)
C34_ResendBound ==
    [][\A c \in Calls :
        /\ writes'[c] <= retry_count
        /\ writes'[c] # writes[c] =>
              /\ writes'[c] = writes[c] + 1
              /\ c \notin wrote
              /\ c \in wrote'
        /\ (pc[c] # "done" /\ pc'[c] = "done" /\ result'[c].kind = "reply"
              /\ attempt[c] = 0) => writes'[c] = 1]_vars

\* the backend was sent the same request twice: the call wrote it, the
\* read failed, and it wrote it again on the socket it dialled next
C34_Witness ==
    \E c \in Calls :
        /\ writes[c] = 2
        /\ dials[c] - dfails[c] = 2
        /\ Returned(c)
        /\ result[c].kind = "reply"

\* C31: every send_request call that was started returns, within
\* retry_count iterations of its loop: until it has returned it is in an
\* iteration below retry_count and either its own next step is possible
\* (a socket operation or a delay that completes or fails) or it waits for
\* the lock and the holder's next step is possible.
C31_Termination ==
    \A c \in Calls :
        pc[c] \notin {"idle", "done"} =>
            /\ attempt[c] < retry_count
            /\ \/ ENABLED Step(c)
               \/ /\ pc[c] = "wait"
                  /\ lock \in Calls \ {c}
                  /\ ENABLED Step(lock)

====
